---- MODULE Spec2Model ----
(***************************************************************************)
(* Model of python/scripts/generate-declarations.py: the collection pass   *)
(* (AstVisitor, parse), the type translator (type_to_ctypes and helpers)   *)
(* and the emission of rascaline/_c_api.py (generate_declarations).        *)
(*                                                                         *)
(* pycparser nodes are records tagged by their class name in field k.      *)
(* Python strings are TLA+ strings; a Python exception raised by a         *)
(* function is the record [ok |-> FALSE, val |-> <exception>].             *)
(***************************************************************************)
EXTENDS Integers, Sequences, FiniteSets, TLC

VARIABLES
    header,     \* the input: [ast |-> top-level nodes, lines |-> raw text lines]
    pc,         \* position of the run
    idx,        \* index of the next node / line handled by the current loop
    functions,  \* AstVisitor.functions
    enums,      \* AstVisitor.enums
    structs,    \* AstVisitor.structs
    types,      \* AstVisitor.types   (insertion-ordered dict)
    defines,    \* AstVisitor.defines (insertion-ordered dict)
    file,       \* the output file rascaline/_c_api.py
    err,        \* the exception that ended the run, or NoError
    ttype,      \* translator harness: the C type handed to type_to_ctypes
    tflag,      \* translator harness: the ndpointer argument
    tres        \* translator harness: what the call produced

vars == <<header, pc, idx, functions, enums, structs, types, defines, file,
          err, ttype, tflag, tres>>

runVars == <<header, idx, functions, enums, structs, types, defines, file, err>>
harnessVars == <<ttype, tflag, tres>>

-----------------------------------------------------------------------------
(* Bounds *)

MaxDepth == 3       \* nesting depth of pointer / array declarators
MaxCbParams == 1    \* parameters of a callback type in the translator harness
MaxDecls == 2       \* top-level declarations of a header
MaxLines == 2       \* raw text lines of a header

-----------------------------------------------------------------------------
(* Python values *)

\* Python's None where a string is expected (no C identifier contains "<").
None == "<None>"

NoError == "<no exception>"

Ok(v) == [ok |-> TRUE, val |-> v]
Raise(e) == [ok |-> FALSE, val |-> e]

AttributeError == "AttributeError"
AssertionError == "AssertionError"
IndexError == "IndexError"
UnknownType == "Exception: Unknown type"
DynamicArray == "Exception: dynamically sized arrays are not supported"

\* str.startswith
startswith(s, prefix) ==
    /\ Len(s) >= Len(prefix)
    /\ SubSeq(s, 1, Len(prefix)) = prefix

\* sep.join(strs)
RECURSIVE join(_, _)
join(sep, strs) ==
    IF Len(strs) = 0 THEN ""
    ELSE IF Len(strs) = 1 THEN strs[1]
    ELSE strs[1] \o sep \o join(sep, Tail(strs))

-----------------------------------------------------------------------------
(* pycparser nodes *)

IdentifierType(names) == [k |-> "IdentifierType", names |-> names]
StructNode(name, decls) == [k |-> "Struct", name |-> name, decls |-> decls]
UnionNode(name) == [k |-> "Union", name |-> name]
EnumNode(name, enumerators) == [k |-> "Enum", name |-> name, enumerators |-> enumerators]
TypeDecl(type) == [k |-> "TypeDecl", type |-> type]
PtrDecl(type) == [k |-> "PtrDecl", type |-> type]
ArrayDecl(type, dim) == [k |-> "ArrayDecl", type |-> type, dim |-> dim]
FuncDecl(params, type) == [k |-> "FuncDecl", args |-> params, type |-> type]
Constant(value) == [k |-> "Constant", value |-> value]
ID(name) == [k |-> "ID", name |-> name]
BinaryOp == [k |-> "BinaryOp"]
NoNode == [k |-> "None"]
Param(type) == [k |-> "Typename", type |-> type]
EllipsisParam == [k |-> "EllipsisParam"]
ParamList(params) == [k |-> "ParamList", params |-> params]
Decl(name, type) == [k |-> "Decl", name |-> name, type |-> type]
Typedef(name, type) == [k |-> "Typedef", name |-> name, type |-> type]
Enumerator(name, value) == [k |-> "Enumerator", name |-> name, value |-> value]

Named(name) == TypeDecl(IdentifierType(<<name>>))

-----------------------------------------------------------------------------
(* Name resolver *)

c_type_name(name) ==
    IF name = None THEN Raise(AttributeError)
    ELSE IF startswith(name, "rascal_") THEN
        IF name = "rascal_indexes_kind" THEN Ok("ctypes.c_int") ELSE Ok(name)
    ELSE IF startswith(name, "eqs_") THEN Ok(name)
    ELSE IF name = "uintptr_t" THEN Ok("c_uintptr_t")
    ELSE IF name = "void" THEN Ok("None")
    ELSE IF name = "int32_t" THEN Ok("ctypes.c_int32")
    ELSE IF name = "uint32_t" THEN Ok("ctypes.c_uint32")
    ELSE IF name = "int64_t" THEN Ok("ctypes.c_int64")
    ELSE IF name = "uint64_t" THEN Ok("ctypes.c_uint64")
    ELSE Ok("ctypes.c_" \o name)

typedecl_name(type) ==
    IF type.k # "TypeDecl" THEN Raise(AssertionError)
    ELSE IF type.type.k = "Struct" THEN Ok(type.type.name)
    ELSE IF type.type.k = "Enum" THEN Ok(type.type.name)
    ELSE IF type.type.k # "IdentifierType" THEN Raise(AttributeError)
    ELSE IF Len(type.type.names) # 1 THEN Raise(AssertionError)
    ELSE Ok(type.type.names[1])

-----------------------------------------------------------------------------
(* Type translator *)

\* double_pointer with the buffer convention tested before the char case
double_pointer_buffer_first(name, ndpointer) ==
    LET cname == c_type_name(name) IN
    IF ndpointer /\ cname.ok
    THEN Ok("POINTER(ndpointer(" \o cname.val \o ", flags='C_CONTIGUOUS'))")
    ELSE IF name = "char" THEN Ok("POINTER(ctypes.c_char_p)")
    ELSE IF ~cname.ok THEN cname
    ELSE Ok("POINTER(POINTER(" \o cname.val \o "))")

\* the pointer-to-pointer branch, once the pointee's name is known
double_pointer(name, ndpointer) ==
    IF name = "char" THEN Ok("POINTER(ctypes.c_char_p)")
    ELSE LET cname == c_type_name(name) IN
         IF ~cname.ok THEN cname
         ELSE IF ndpointer
              THEN Ok("POINTER(ndpointer(" \o cname.val \o ", flags='C_CONTIGUOUS'))")
              ELSE Ok("POINTER(POINTER(" \o cname.val \o "))")

\* the pointer branch, once the pointee's name is known
single_pointer(name) ==
    IF name = "void" THEN Ok("ctypes.c_void_p")
    ELSE IF name = "char" THEN Ok("ctypes.c_char_p")
    ELSE LET cname == c_type_name(name) IN
         IF ~cname.ok THEN cname ELSE Ok("POINTER(" \o cname.val \o ")")

\* array_size without the isinstance test: any dimension is given a size
array_size_unchecked(dim) ==
    IF dim.k = "Constant" THEN Ok(dim.value)
    ELSE IF dim.k = "ID" THEN Ok(dim.name)
    ELSE Ok("0")

\* size = type.dim.value, for a dimension that is a c_ast.Constant
array_size(dim) ==
    IF dim.k = "Constant" THEN Ok(dim.value) ELSE Raise(DynamicArray)

RECURSIVE type_to_ctypes(_, _)
RECURSIVE funcdecl_args(_, _)

\* [type_to_ctypes(t.type, ndpointer) for t in params], left to right,
\* stopping at the first exception
funcdecl_args(params, ndpointer) ==
    IF Len(params) = 0 THEN Ok(<<>>)
    ELSE IF params[1].k = "EllipsisParam" THEN Raise(AttributeError)
    ELSE LET first == type_to_ctypes(params[1].type, ndpointer) IN
         IF ~first.ok THEN first
         ELSE LET rest == funcdecl_args(Tail(params), ndpointer) IN
              IF ~rest.ok THEN rest ELSE Ok(<<first.val>> \o rest.val)

funcdecl_to_ctypes(type, ndpointer) ==
    LET restype == type_to_ctypes(type.type, ndpointer) IN
    IF ~restype.ok THEN restype
    ELSE IF type.args.k # "ParamList" THEN Raise(AttributeError)
    ELSE LET args == funcdecl_args(type.args.params, ndpointer) IN
         IF ~args.ok THEN args
         ELSE Ok("CFUNCTYPE(" \o restype.val \o ", " \o join(", ", args.val) \o ")")

type_to_ctypes(type, ndpointer) ==
    IF type.k = "PtrDecl" THEN
        IF type.type.k = "PtrDecl" THEN
            IF type.type.type.k = "TypeDecl" THEN
                LET name == typedecl_name(type.type.type) IN
                IF ~name.ok THEN name ELSE double_pointer(name.val, ndpointer)
            ELSE Raise(UnknownType)
        ELSE IF type.type.k = "TypeDecl" THEN
            LET name == typedecl_name(type.type) IN
            IF ~name.ok THEN name ELSE single_pointer(name.val)
        ELSE IF type.type.k = "FuncDecl" THEN funcdecl_to_ctypes(type.type, ndpointer)
        ELSE Raise(UnknownType)
    ELSE IF type.k = "TypeDecl" THEN
        LET name == typedecl_name(type) IN
        IF ~name.ok THEN name ELSE c_type_name(name.val)
    ELSE IF type.k = "IdentifierType" THEN
        IF Len(type.names) = 0 THEN Raise(IndexError) ELSE c_type_name(type.names[1])
    ELSE IF type.k = "ArrayDecl" THEN
        LET size == array_size(type.dim) IN
        IF ~size.ok THEN size
        ELSE LET elem == type_to_ctypes(type.type, FALSE) IN
             IF ~elem.ok THEN elem ELSE Ok(elem.val \o " * " \o size.val)
    ELSE IF type.k = "FuncDecl" THEN funcdecl_to_ctypes(type, ndpointer)
    ELSE Raise(UnknownType)

-----------------------------------------------------------------------------
(* The C types of the translator harness *)

PrimitiveNames == {"char", "void", "double", "uintptr_t",
                   "int32_t", "uint32_t", "int64_t", "uint64_t"}
LibraryNames == {"rascal_status_t", "rascal_indexes_kind", "eqs_labels_t"}

UnsignedLong == <<"unsigned", "long">>

LeafTypes ==
    {Named(n) : n \in PrimitiveNames \cup LibraryNames}
    \cup {TypeDecl(IdentifierType(UnsignedLong)),
          TypeDecl(StructNode("rascal_pair_t", <<>>)),
          TypeDecl(StructNode(None, <<>>)),
          TypeDecl(EnumNode("rascal_indexes_kind", <<>>)),
          TypeDecl(UnionNode("rascal_data_t"))}
    \cup {IdentifierType(<<"double">>), IdentifierType(<<"void">>),
          IdentifierType(UnsignedLong)}

CbParamTypes == {PtrDecl(Named("char")), PtrDecl(PtrDecl(Named("char"))),
                 PtrDecl(PtrDecl(Named("double")))}
CbReturnTypes == {Named("void"), Named("rascal_status_t")}

RECURSIVE SeqsUpTo(_, _)
SeqsUpTo(S, n) ==
    IF n = 0 THEN {<<>>}
    ELSE LET shorter == SeqsUpTo(S, n - 1) IN
         shorter \cup {Append(s, x) : s \in {q \in shorter : Len(q) = n - 1}, x \in S}

CallbackTypes ==
    {FuncDecl(ParamList([i \in DOMAIN ps |-> Param(ps[i])]), r) :
        ps \in SeqsUpTo(CbParamTypes, MaxCbParams) \ {<<>>}, r \in CbReturnTypes}
    \cup {FuncDecl(ParamList(<<Param(PtrDecl(Named("char"))), EllipsisParam>>), Named("void")),
          FuncDecl(NoNode, Named("void"))}

Dims == {Constant("10"), ID("n"), BinaryOp, NoNode}

RECURSIVE TypesOfDepth(_)
TypesOfDepth(d) ==
    IF d = 0 THEN LeafTypes \cup CallbackTypes
    ELSE LET inner == TypesOfDepth(d - 1) IN
         LeafTypes \cup CallbackTypes
         \cup {PtrDecl(t) : t \in inner}
         \cup {ArrayDecl(t, dim) : t \in inner, dim \in Dims}

HarnessTypes == TypesOfDepth(MaxDepth)

NotCalled == [ok |-> FALSE, val |-> "<not called>"]

-----------------------------------------------------------------------------
(* Insertion-ordered dict: a sequence of [key, value] without repeated keys *)

DictKeys(d) == {d[i].key : i \in DOMAIN d}

\* DictSet that keeps the value a key already has
DictSet_keep_first(d, key, value) ==
    IF key \in DictKeys(d) THEN d ELSE Append(d, [key |-> key, value |-> value])

\* d[key] = value
DictSet(d, key, value) ==
    IF key \in DictKeys(d)
    THEN [i \in DOMAIN d |-> IF d[i].key = key THEN [key |-> key, value |-> value] ELSE d[i]]
    ELSE Append(d, [key |-> key, value |-> value])

-----------------------------------------------------------------------------
(* Function, Struct, Enum *)

Function(name, restype) == [name |-> name, restype |-> restype, args |-> <<>>]
add_arg(function, arg) == [function EXCEPT !.args = Append(@, arg)]

Struct(name) == [name |-> name, members |-> <<>>]
add_member(struct, name, type) == [struct EXCEPT !.members = DictSet(@, name, type)]

Enum(name) == [name |-> name, values |-> <<>>]
add_value(enum, name, value) == [enum EXCEPT !.values = DictSet(@, name, value)]

-----------------------------------------------------------------------------
(* The headers handed to a run *)

StatusEnum ==
    EnumNode(None, <<Enumerator("RASCAL_FIRST", Constant("0")),
                     Enumerator("RASCAL_SECOND", Constant("1"))>>)

PairStruct ==
    StructNode("rascal_pair_t",
               <<Decl("values", PtrDecl(PtrDecl(Named("double")))),
                 Decl("shape", ArrayDecl(Named("uintptr_t"), Constant("2")))>>)

TopLevelNodes ==
    { \* rascal_status_t rascal_calculator(void);
      Decl("rascal_calculator",
           FuncDecl(ParamList(<<Param(Named("void"))>>), Named("rascal_status_t"))),
      \* rascal_status_t* rascal_name(const char* name, double value);
      Decl("rascal_name",
           FuncDecl(ParamList(<<Param(PtrDecl(Named("char"))), Param(Named("double"))>>),
                    PtrDecl(Named("rascal_status_t")))),
      \* void rascal_deep(double*** data);
      Decl("rascal_deep",
           FuncDecl(ParamList(<<Param(PtrDecl(PtrDecl(PtrDecl(Named("double")))))>>),
                    Named("void"))),
      \* void eqs_labels(void);
      Decl("eqs_labels", FuncDecl(ParamList(<<Param(Named("void"))>>), Named("void"))),
      \* struct point {double x;};
      Decl(None, StructNode("point", <<Decl("x", Named("double"))>>)),
      \* typedef enum {RASCAL_FIRST = 0, RASCAL_SECOND = 1} rascal_indexes_kind;
      Typedef("rascal_indexes_kind", TypeDecl(StatusEnum)),
      \* typedef struct rascal_pair_t {double** values; uintptr_t shape[2];} rascal_pair_t;
      Typedef("rascal_pair_t", TypeDecl(PairStruct)),
      \* typedef unsigned long rascal_size_t;
      Typedef("rascal_size_t", TypeDecl(IdentifierType(UnsignedLong))),
      \* typedef unsigned long size_t;
      Typedef("size_t", TypeDecl(IdentifierType(UnsignedLong))) }

\* the raw text lines, each as the list of its whitespace-separated words
TextLines ==
    { <<"#define", "RASCALINE_H">>,
      <<"#define", "RASCAL_SUCCESS", "0">>,
      <<"#define", "RASCAL_SUCCESS", "1">>,
      <<"#define", "RASCAL_BUFFER_SIZE_ERROR", "254">>,
      <<"#define", "FOO">> }

Headers ==
    [ast : SeqsUpTo(TopLevelNodes, MaxDecls), lines : SeqsUpTo(TextLines, MaxLines)]

NoHeader == [ast |-> <<>>, lines |-> <<>>]
NoFile == [exists |-> FALSE, content |-> <<>>]

-----------------------------------------------------------------------------
(* Collection pass: AstVisitor and parse *)

\* for parameter in node.type.args.params: function.add_arg(parameter.type)
RECURSIVE add_args(_, _)
add_args(function, params) ==
    IF Len(params) = 0 THEN Ok(function)
    ELSE IF params[1].k = "EllipsisParam" THEN Raise(AttributeError)
    ELSE add_args(add_arg(function, params[1].type), Tail(params))

\* for enumerator in ...enumerators: enum.add_value(enumerator.name, enumerator.value.value)
RECURSIVE add_values(_, _)
add_values(enum, enumerators) ==
    IF Len(enumerators) = 0 THEN Ok(enum)
    ELSE IF enumerators[1].value.k # "Constant" THEN Raise(AttributeError)
    ELSE add_values(add_value(enum, enumerators[1].name, enumerators[1].value.value),
                    Tail(enumerators))

\* for _, member in node.type.type.children(): struct.add_member(member.name, member.type)
RECURSIVE add_members(_, _)
add_members(struct, decls) ==
    IF Len(decls) = 0 THEN struct
    ELSE add_members(add_member(struct, decls[1].name, decls[1].type), Tail(decls))

\* library_name without the prefix test
library_name_any(name) == TRUE

\* node.name.startswith("rascal_")
library_name(name) == startswith(name, "rascal_")

\* what AstVisitor.visit_Decl does with a node: an exception, or the list of
\* what it appends to self.functions (nothing when it returns early)
DeclOutcome(node) ==
    IF node.name = None THEN Raise(AttributeError)
    ELSE IF ~library_name(node.name) THEN Ok(<<>>)
    ELSE IF node.type.k # "FuncDecl" THEN Raise(AttributeError)
    ELSE IF node.type.args.k # "ParamList" THEN Raise(AttributeError)
    ELSE LET function == add_args(Function(node.name, node.type.type),
                                  node.type.args.params) IN
         IF ~function.ok THEN function ELSE Ok(<<function.val>>)

\* the C preprocessor and pycparser have produced the tree; visitor = AstVisitor()
parse_file ==
    /\ pc = "start"
    /\ pc' = "visit"
    /\ idx' = 1
    /\ functions' = <<>> /\ enums' = <<>> /\ structs' = <<>>
    /\ types' = <<>> /\ defines' = <<>>
    /\ UNCHANGED <<header, file, err, harnessVars>>

visit_Decl ==
    /\ pc = "visit"
    /\ idx <= Len(header.ast)
    /\ header.ast[idx].k = "Decl"
    /\ LET outcome == DeclOutcome(header.ast[idx]) IN
       IF ~outcome.ok
       THEN /\ pc' = "failed" /\ err' = outcome.val
            /\ UNCHANGED <<idx, functions>>
       ELSE /\ functions' = functions \o outcome.val
            /\ idx' = idx + 1
            /\ UNCHANGED <<pc, err>>
    /\ UNCHANGED <<header, enums, structs, types, defines, file, harnessVars>>

visit_Typedef ==
    /\ pc = "visit"
    /\ idx <= Len(header.ast)
    /\ header.ast[idx].k = "Typedef"
    /\ LET node == header.ast[idx]
           inner == node.type.type
           enum == IF inner.k = "Enum"
                   THEN add_values(Enum(node.name), inner.enumerators)
                   ELSE Raise(AttributeError)
       IN
       IF ~library_name(node.name)
       THEN /\ idx' = idx + 1
            /\ UNCHANGED <<pc, err, enums, structs, types>>
       ELSE IF inner.k = "Enum" /\ ~enum.ok
       THEN /\ pc' = "failed" /\ err' = enum.val
            /\ UNCHANGED <<idx, enums, structs, types>>
       ELSE /\ enums' = IF inner.k = "Enum" THEN Append(enums, enum.val) ELSE enums
            /\ structs' = IF inner.k = "Struct"
                          THEN Append(structs, add_members(Struct(node.name), inner.decls))
                          ELSE structs
            /\ types' = IF inner.k \notin {"Enum", "Struct"}
                        THEN DictSet(types, node.name, inner)
                        ELSE types
            /\ idx' = idx + 1
            /\ UNCHANGED <<pc, err>>
    /\ UNCHANGED <<header, functions, defines, file, harnessVars>>

\* visitor.visit(ast) has returned; with open(file) as fd
open_header ==
    /\ pc = "visit"
    /\ idx > Len(header.ast)
    /\ pc' = "scan"
    /\ idx' = 1
    /\ UNCHANGED <<header, functions, enums, structs, types, defines, file, err,
                   harnessVars>>

\* needle in s
contains(s, needle) ==
    \E i \in 1..(Len(s) - Len(needle) + 1) : SubSeq(s, i, i + Len(needle) - 1) = needle

\* one iteration of "for line in fd"
scan_line ==
    /\ pc = "scan"
    /\ idx <= Len(header.lines)
    /\ LET split == header.lines[idx] IN
       IF ~(\E w \in 1..Len(split) : contains(split[w], "#define"))
       THEN /\ idx' = idx + 1
            /\ UNCHANGED <<pc, err, defines>>
       ELSE IF Len(split) < 2
       THEN /\ pc' = "failed" /\ err' = IndexError
            /\ UNCHANGED <<idx, defines>>
       ELSE IF split[2] = "RASCALINE_H"
       THEN /\ idx' = idx + 1
            /\ UNCHANGED <<pc, err, defines>>
       ELSE IF Len(split) < 3
       THEN /\ pc' = "failed" /\ err' = IndexError
            /\ UNCHANGED <<idx, defines>>
       ELSE /\ defines' = DictSet(defines, split[2], split[3])
            /\ idx' = idx + 1
            /\ UNCHANGED <<pc, err>>
    /\ UNCHANGED <<header, functions, enums, structs, types, file, harnessVars>>

\* return visitor
parse_return ==
    /\ pc = "scan"
    /\ idx > Len(header.lines)
    /\ pc' = "open"
    /\ UNCHANGED <<runVars, harnessVars>>

-----------------------------------------------------------------------------
(* Emission: generate_declarations and the generate_* functions.  The file *)
(* content is the sequence of the strings passed to file.write; a function *)
(* that writes returns [out |-> content, err |-> exception or NoError].    *)

Written(out) == [out |-> out, err |-> NoError]
Aborted(out, e) == [out |-> out, err |-> e]

Preamble ==
    "'''Automatically-generated file, do not edit!!!'''\n# flake8: noqa\n\n"
    \o "import ctypes\nimport enum\nimport platform\n"
    \o "from ctypes import CFUNCTYPE, POINTER\n\n"
    \o "from equistore.core._c_api import eqs_labels_t, eqs_tensormap_t\n"
    \o "from numpy.ctypeslib import ndpointer\n\n\n"
    \o "arch = platform.architecture()[0]\n"
    \o "if arch == \"32bit\":\n    c_uintptr_t = ctypes.c_uint32\n"
    \o "elif arch == \"64bit\":\n    c_uintptr_t = ctypes.c_uint64\n\n"

DefineLine(name, value) == name \o " = " \o value \o "\n"

\* for name, value in data.defines.items(): file.write(f"{name} = {value}\n")
RECURSIVE write_defines(_, _)
write_defines(out, items) ==
    IF Len(items) = 0 THEN out
    ELSE write_defines(Append(out, DefineLine(items[1].key, items[1].value)),
                       Tail(items))

\* for name, c_type in data.types.items(): file.write(f"{name} = {type_to_ctypes(c_type)}\n")
RECURSIVE write_aliases(_, _)
write_aliases(out, items) ==
    IF Len(items) = 0 THEN Written(out)
    ELSE LET t == type_to_ctypes(items[1].value, FALSE) IN
         IF ~t.ok THEN Aborted(out, t.val)
         ELSE write_aliases(Append(out, items[1].key \o " = " \o t.val \o "\n"),
                            Tail(items))

EnumOpen(name) == "\n\nclass " \o name \o "(enum.Enum):\n"
EnumLine(name, value) == "    " \o name \o " = " \o value \o "\n"

RECURSIVE write_values(_, _)
write_values(out, items) ==
    IF Len(items) = 0 THEN out
    ELSE write_values(Append(out, EnumLine(items[1].key, items[1].value)), Tail(items))

RECURSIVE generate_enums(_, _)
generate_enums(out, es) ==
    IF Len(es) = 0 THEN out
    ELSE generate_enums(write_values(Append(out, EnumOpen(es[1].name)), es[1].values),
                        Tail(es))

StructOpen(name) == "\n\nclass " \o name \o "(ctypes.Structure):\n"
FieldLine(name, type) == "        (\"" \o name \o "\", " \o type \o "),\n"

RECURSIVE write_members(_, _)
write_members(out, items) ==
    IF Len(items) = 0 THEN Written(out)
    ELSE LET t == type_to_ctypes(items[1].value, TRUE) IN
         IF ~t.ok THEN Aborted(out, t.val)
         ELSE write_members(Append(out, FieldLine(items[1].key, t.val)), Tail(items))

RECURSIVE generate_structs(_, _)
generate_structs(out, ss) ==
    IF Len(ss) = 0 THEN Written(out)
    ELSE LET opened == Append(out, StructOpen(ss[1].name)) IN
         IF Len(ss[1].members) = 0
         THEN generate_structs(Append(opened, "    pass\n"), Tail(ss))
         ELSE LET fields == write_members(Append(opened, "    _fields_ = [\n"),
                                          ss[1].members) IN
              IF fields.err # NoError THEN fields
              ELSE generate_structs(Append(fields.out, "    ]\n"), Tail(ss))

\* [type_to_ctypes(arg) for arg in function.args]
RECURSIVE translate_args(_)
translate_args(args) ==
    IF Len(args) = 0 THEN Ok(<<>>)
    ELSE LET first == type_to_ctypes(args[1], FALSE) IN
         IF ~first.ok THEN first
         ELSE LET rest == translate_args(Tail(args)) IN
              IF ~rest.ok THEN rest ELSE Ok(<<first.val>> \o rest.val)

\* void_args without the collapse
void_args_kept(args) == args

\* functions taking void parameter in C don't have any parameter
void_args(args) == IF args = <<"None">> THEN <<>> ELSE args

\* check_status that wraps every return type mentioning rascal_status_t
check_status_mentioned(restype) ==
    IF contains(restype, "rascal_status_t") THEN "_check_rascal_status_t" ELSE restype

check_status(restype) ==
    IF restype = "rascal_status_t" THEN "_check_rascal_status_t" ELSE restype

ArgtypesOpen(name) == "\n    lib." \o name \o ".argtypes = [\n        "
ArgtypesClose == "\n    ]\n"
ArgtypesText(args) == join(",\n        ", args)
RestypeLine(name, restype) == "    lib." \o name \o ".restype = " \o restype \o "\n"

RECURSIVE write_functions(_, _)
write_functions(out, fs) ==
    IF Len(fs) = 0 THEN Written(out)
    ELSE LET opened == Append(out, ArgtypesOpen(fs[1].name))
             args == translate_args(fs[1].args)
             restype == type_to_ctypes(fs[1].restype, FALSE)
             closed == Append(Append(opened, ArgtypesText(void_args(args.val))),
                              ArgtypesClose)
         IN
         IF ~args.ok THEN Aborted(opened, args.val)
         ELSE IF ~restype.ok THEN Aborted(closed, restype.val)
         ELSE write_functions(
                 Append(closed, RestypeLine(fs[1].name, check_status(restype.val))),
                 Tail(fs))

generate_functions(out, fs) ==
    write_functions(
        Append(Append(out, "\n\ndef setup_functions(lib):\n"),
               "    from .status import _check_rascal_status_t\n"),
        fs)

\* what generate_declarations writes after the macro constants: the first
\* exception ends it, and the with statement closes the file with what was
\* written until then
emit_declarations(out, data) ==
    LET aliases == write_aliases(out, data.types) IN
    IF aliases.err # NoError THEN aliases
    ELSE LET ss == generate_structs(generate_enums(aliases.out, data.enums),
                                    data.structs) IN
         IF ss.err # NoError THEN ss
         ELSE generate_functions(ss.out, data.functions)

\* with open(outpath, "w") as file: the preamble and the macro constants
open_output ==
    /\ pc = "open"
    /\ file' = [exists |-> TRUE,
                content |-> Append(write_defines(<<Preamble>>, defines), "\n\n")]
    /\ pc' = "emit"
    /\ UNCHANGED <<header, idx, functions, enums, structs, types, defines, err,
                   harnessVars>>

\* the type aliases, enums, structs and functions
write_declarations ==
    /\ pc = "emit"
    /\ LET result == emit_declarations(file.content,
                                       [types |-> types, enums |-> enums,
                                        structs |-> structs, functions |-> functions]) IN
       /\ file' = [file EXCEPT !.content = result.out]
       /\ err' = result.err
       /\ pc' = IF result.err = NoError THEN "done" ELSE "failed"
    /\ UNCHANGED <<header, idx, functions, enums, structs, types, defines,
                   harnessVars>>

-----------------------------------------------------------------------------
(* Translator harness: one call of type_to_ctypes *)

call_type_to_ctypes ==
    /\ pc = "call"
    /\ tres' = type_to_ctypes(ttype, tflag)
    /\ pc' = IF tres'.ok THEN "returned" ELSE "raised"
    /\ UNCHANGED <<runVars, ttype, tflag>>

-----------------------------------------------------------------------------
(* Specifications *)

Init ==
    /\ header \in Headers
    /\ pc = "start"
    /\ idx = 1
    /\ functions = <<>> /\ enums = <<>> /\ structs = <<>>
    /\ types = <<>> /\ defines = <<>>
    /\ file = NoFile
    /\ err = NoError
    /\ ttype = NoNode /\ tflag = FALSE /\ tres = NotCalled

Next ==
    \/ parse_file
    \/ visit_Decl
    \/ visit_Typedef
    \/ open_header
    \/ scan_line
    \/ parse_return
    \/ open_output
    \/ write_declarations

Spec == Init /\ [][Next]_vars

InitTranslator ==
    /\ header = NoHeader
    /\ pc = "call"
    /\ idx = 1
    /\ functions = <<>> /\ enums = <<>> /\ structs = <<>>
    /\ types = <<>> /\ defines = <<>>
    /\ file = NoFile
    /\ err = NoError
    /\ ttype \in HarnessTypes
    /\ tflag \in BOOLEAN
    /\ tres = NotCalled

NextTranslator == call_type_to_ctypes

SpecTranslator == InitTranslator /\ [][NextTranslator]_vars

-----------------------------------------------------------------------------
(* Properties of the type translator (checked under SpecTranslator) *)

Called == pc \in {"returned", "raised"}

CharType == Named("char")

\* a TypeDecl that names one type: a one-word identifier, or a named struct / enum
NamedTypeDecl(type) ==
    /\ type.k = "TypeDecl"
    /\ \/ type.type.k = "IdentifierType" /\ Len(type.type.names) = 1
       \/ type.type.k \in {"Struct", "Enum"} /\ type.type.name # None

\* the ten documented shapes
RECURSIVE Supported(_)
Supported(type) ==
    \/ NamedTypeDecl(type)
    \/ type.k = "IdentifierType" /\ Len(type.names) = 1
    \/ /\ type.k = "PtrDecl"
       /\ \/ NamedTypeDecl(type.type)
          \/ type.type.k = "PtrDecl" /\ NamedTypeDecl(type.type.type)
          \/ type.type.k = "FuncDecl" /\ Supported(type.type)
    \/ /\ type.k = "ArrayDecl"
       /\ type.dim.k = "Constant"
       /\ Supported(type.type)
    \/ /\ type.k = "FuncDecl"
       /\ Supported(type.type)
       /\ type.args.k = "ParamList"
       /\ \A i \in DOMAIN type.args.params :
            /\ type.args.params[i].k # "EllipsisParam"
            /\ Supported(type.args.params[i].type)

\* C2: every C type expression outside the ten documented shapes makes
\* type_to_ctypes raise; it never returns a descriptor for such a type.
C2_UnsupportedShapeRaises ==
    (Called /\ ~Supported(ttype)) => ~tres.ok

\* C7: char* translates to ctypes.c_char_p and char** to
\* POINTER(ctypes.c_char_p), with ndpointer on or off, at top level, as the
\* element of a fixed array and as a parameter of a callback.
StringDescriptor(type) ==
    IF type = PtrDecl(CharType) THEN "ctypes.c_char_p" ELSE "POINTER(ctypes.c_char_p)"

IsString(type) == type \in {PtrDecl(CharType), PtrDecl(PtrDecl(CharType))}

IsCallback(type) ==
    /\ type.k = "FuncDecl"
    /\ type.args.k = "ParamList"
    /\ \A i \in DOMAIN type.args.params : type.args.params[i].k = "Typename"

\* the descriptor of a callback whose string parameters follow the convention
CallbackDescriptor(type, ndpointer) ==
    LET params == type.args.params
        texts == [i \in DOMAIN params |->
                    IF IsString(params[i].type) THEN StringDescriptor(params[i].type)
                    ELSE type_to_ctypes(params[i].type, ndpointer).val]
    IN "CFUNCTYPE(" \o type_to_ctypes(type.type, ndpointer).val \o ", "
       \o join(", ", texts) \o ")"

C7_StringConventions ==
    Called =>
        /\ IsString(ttype) => tres = Ok(StringDescriptor(ttype))
        /\ (ttype.k = "ArrayDecl" /\ ttype.dim.k = "Constant" /\ IsString(ttype.type))
              => tres = Ok(StringDescriptor(ttype.type) \o " * " \o ttype.dim.value)
        /\ IsCallback(ttype) => tres = Ok(CallbackDescriptor(ttype, tflag))
        /\ (ttype.k = "PtrDecl" /\ IsCallback(ttype.type))
              => tres = Ok(CallbackDescriptor(ttype.type, tflag))

C7_Witness ==
    /\ pc = "returned"
    /\ tflag
    /\ ttype.k = "PtrDecl"
    /\ IsCallback(ttype.type)
    /\ \E i \in DOMAIN ttype.type.args.params :
          ttype.type.args.params[i].type = PtrDecl(PtrDecl(CharType))

\* C8: an array whose dimension is a literal constant N and whose element
\* type translates yields "<element descriptor> * N", the element being
\* translated as type_to_ctypes(element) does (buffer convention off); an
\* array whose dimension is anything else (identifier, expression, absent)
\* raises and yields no descriptor.
C8_ArrayDimension ==
    (Called /\ ttype.k = "ArrayDecl") =>
        LET elem == type_to_ctypes(ttype.type, FALSE) IN
        /\ (ttype.dim.k = "Constant" /\ elem.ok)
              => tres = Ok(elem.val \o " * " \o ttype.dim.value)
        /\ ttype.dim.k # "Constant" => tres = Raise(DynamicArray)

C8_Witness ==
    /\ pc = "returned"
    /\ ttype = ArrayDecl(ArrayDecl(Named("double"), Constant("10")), Constant("10"))
    /\ tres = Ok("ctypes.c_double * 10 * 10")

C8_WitnessDynamic ==
    /\ pc = "raised"
    /\ ttype.k = "ArrayDecl"
    /\ ttype.dim = ID("n")
    /\ Supported(ttype.type)

-----------------------------------------------------------------------------
(* Properties of a run (checked under Spec) *)

HasLibraryPrefix(name) == startswith(name, "rascal_") \/ startswith(name, "eqs_")

Names(collection) == {collection[i].name : i \in DOMAIN collection}

\* the header's declarations that visit_Decl turns into a Function
IsCollectedDecl(node) ==
    node.k = "Decl" /\ node.name # None /\ startswith(node.name, "rascal_")
CollectedDecls == SelectSeq(header.ast, IsCollectedDecl)

IsCollectedTypedef(node) == node.k = "Typedef" /\ startswith(node.name, "rascal_")
IsStructTypedef(node) == IsCollectedTypedef(node) /\ node.type.type.k = "Struct"
IsEnumTypedef(node) == IsCollectedTypedef(node) /\ node.type.type.k = "Enum"
CollectedStructs == SelectSeq(header.ast, IsStructTypedef)
CollectedEnums == SelectSeq(header.ast, IsEnumTypedef)

IsDefine(split) == \E w \in 1..Len(split) : contains(split[w], "#define")
IsMacro(split) == IsDefine(split) /\ Len(split) >= 3 /\ split[2] # "RASCALINE_H"
Macros == SelectSeq(header.lines, IsMacro)

\* a "#define" line without both a NAME and a VALUE
Malformed(split) == IsDefine(split) /\ Len(split) < 3

\* C1: a run that ends with an exception leaves no output file, created or
\* written.  (parse raises before the file is opened, so the runs that end
\* with an exception and have a file are those where type_to_ctypes raised.)
C1_AllOrNothing ==
    pc = "failed" => (~file.exists /\ file.content = <<>>)

\* C3: a "#define" line without NAME and VALUE is skipped: the scan goes on
\* to the next line, the macro map is unchanged and the run does not fail;
\* RASCALINE_H never becomes a key of the macro map.
C3_MalformedMacroSkipped ==
    [][/\ (pc = "scan" /\ idx <= Len(header.lines) /\ Malformed(header.lines[idx]))
          => (pc' = "scan" /\ idx' = idx + 1 /\ defines' = defines /\ err' = NoError)
       /\ "RASCALINE_H" \notin DictKeys(defines')]_vars

\* C4 as stated: every entry of all five collections, macro constants
\* included, has a name starting with rascal_ or eqs_.
C4_PrefixFilterAll ==
    /\ \A name \in Names(functions) \cup Names(structs) \cup Names(enums) :
          HasLibraryPrefix(name)
    /\ \A name \in DictKeys(types) \cup DictKeys(defines) : HasLibraryPrefix(name)

\* C4 amended: every collected function, struct, enum and type alias has a
\* name starting with rascal_ or eqs_; macro constants are not filtered: once
\* the scan is over, the name of every "#define NAME VALUE" line other than
\* the include guard is a key of the macro map.
C4_PrefixFilter ==
    /\ \A name \in Names(functions) \cup Names(structs) \cup Names(enums) :
          HasLibraryPrefix(name)
    /\ \A name \in DictKeys(types) : HasLibraryPrefix(name)
    /\ pc \in {"open", "emit", "done"} =>
          \A i \in DOMAIN Macros : Macros[i][2] \in DictKeys(defines)

C4_Witness ==
    /\ pc = "open"
    /\ \E i \in DOMAIN header.ast : header.ast[i].name = "size_t"
    /\ Len(functions) + Len(structs) + Len(enums) + Len(types) > 0
    /\ \E name \in DictKeys(defines) : ~HasLibraryPrefix(name)

\* C5: visiting a declaration whose name does not start with rascal_, a
\* declaration without a name included, raises nothing and leaves the five
\* collections unchanged.
NonMatching(node) == node.name = None \/ ~startswith(node.name, "rascal_")

C5_NonMatchingSkipped ==
    [][(pc = "visit" /\ idx <= Len(header.ast) /\ NonMatching(header.ast[idx]))
          => /\ pc' = "visit" /\ err' = NoError /\ idx' = idx + 1
             /\ UNCHANGED <<functions, structs, enums, types, defines>>]_vars

\* generate_functions writes four strings per function; these are the
\* second (the argument types) and the fourth (the return type) of the i-th
FunctionWrite(i, k) ==
    file.content[Len(file.content) - 4 * (Len(functions) - i + 1) + k]
ArgtypesWritten(i) == FunctionWrite(i, 2)
RestypeWritten(i) == FunctionWrite(i, 4)

VoidOnly(params) == Len(params) = 1 /\ params[1].type = Named("void")

\* C6: a collected function declared with the single parameter void gets an
\* empty argument list; any other function gets one translated descriptor
\* per declared parameter, in order.
C6_VoidParameterCollapse ==
    pc = "done" =>
        /\ Len(functions) = Len(CollectedDecls)
        /\ \A i \in DOMAIN CollectedDecls :
              LET params == CollectedDecls[i].type.args.params
                  texts == [j \in DOMAIN params |->
                              type_to_ctypes(params[j].type, FALSE).val]
              IN ArgtypesWritten(i) = IF VoidOnly(params) THEN ""
                                      ELSE join(",\n        ", texts)

C6_Witness ==
    /\ pc = "done"
    /\ Len(CollectedDecls) = 2
    /\ VoidOnly(CollectedDecls[1].type.args.params)
    /\ ArgtypesWritten(1) = ""
    /\ ArgtypesWritten(2) = "ctypes.c_char_p,\n        ctypes.c_double"

\* C9: the registered return type of a collected function is
\* _check_rascal_status_t exactly when the function returns the bare type
\* rascal_status_t; any other return type, a pointer to rascal_status_t
\* included, is registered as translated.
ReturnsStatus(decl) ==
    /\ NamedTypeDecl(decl.type.type)
    /\ typedecl_name(decl.type.type) = Ok("rascal_status_t")

C9_StatusWrapping ==
    pc = "done" =>
        \A i \in DOMAIN CollectedDecls :
            LET decl == CollectedDecls[i] IN
            /\ ReturnsStatus(decl)
                  => RestypeWritten(i) = RestypeLine(decl.name, "_check_rascal_status_t")
            /\ ~ReturnsStatus(decl)
                  => RestypeWritten(i) =
                        RestypeLine(decl.name, type_to_ctypes(decl.type.type, FALSE).val)
            /\ decl.type.type = PtrDecl(Named("rascal_status_t"))
                  => RestypeWritten(i) =
                        "    lib." \o decl.name \o ".restype = POINTER(rascal_status_t)\n"

C9_Witness ==
    /\ pc = "done"
    /\ \E i \in DOMAIN CollectedDecls : ReturnsStatus(CollectedDecls[i])
    /\ \E i \in DOMAIN CollectedDecls :
          CollectedDecls[i].type.type = PtrDecl(Named("rascal_status_t"))

\* the entries of the header in their order of appearance
MacroEntries == [i \in DOMAIN Macros |-> [key |-> Macros[i][2], value |-> Macros[i][3]]]
FieldEntries(decls) ==
    [j \in DOMAIN decls |-> [key |-> decls[j].name, value |-> decls[j].type]]
MemberEntries(enumerators) ==
    [j \in DOMAIN enumerators |->
        [key |-> enumerators[j].name, value |-> enumerators[j].value.value]]

AppearanceOfFunctions ==
    functions = [i \in DOMAIN CollectedDecls |->
                    [name |-> CollectedDecls[i].name,
                     restype |-> CollectedDecls[i].type.type,
                     args |-> [j \in DOMAIN CollectedDecls[i].type.args.params |->
                                  CollectedDecls[i].type.args.params[j].type]]]

\* the struct, enum and macro collections and the macro lines of the output
\* are the header's entries passed through Entries( )
AppearanceOfEntries(Entries(_)) ==
    /\ structs = [i \in DOMAIN CollectedStructs |->
                    [name |-> CollectedStructs[i].name,
                     members |-> Entries(FieldEntries(CollectedStructs[i].type.type.decls))]]
    /\ enums = [i \in DOMAIN CollectedEnums |->
                    [name |-> CollectedEnums[i].name,
                     values |-> Entries(MemberEntries(
                                    CollectedEnums[i].type.type.enumerators))]]
    /\ defines = Entries(MacroEntries)
    /\ file.exists =>
          /\ Len(file.content) >= Len(Entries(MacroEntries)) + 2
          /\ \A i \in DOMAIN Entries(MacroEntries) :
                file.content[i + 1] = DefineLine(Entries(MacroEntries)[i].key,
                                                 Entries(MacroEntries)[i].value)

AsWritten(entries) == entries

\* one entry per name, at the place of the name's first appearance, with
\* the value of the name's last appearance
FirstPlaces(entries) ==
    LET IsFirst(i) == \A j \in 1..(i - 1) : entries[j].key # entries[i].key
    IN SelectSeq([i \in DOMAIN entries |-> i], IsFirst)

LastValue(entries, key) ==
    LET last == CHOOSE i \in DOMAIN entries :
                    /\ entries[i].key = key
                    /\ \A j \in (i + 1)..Len(entries) : entries[j].key # key
    IN entries[last].value

OnePerName(entries) ==
    LET places == FirstPlaces(entries) IN
    [p \in DOMAIN places |->
        [key |-> entries[places[p]].key,
         value |-> LastValue(entries, entries[places[p]].key)]]

CollectionDone == pc \in {"open", "emit", "done"}

====
